---- MODULE Spec2Model ----
(***************************************************************************)
(* Order and Payment record schemas (src/models/order.py,                  *)
(* src/models/payment.py): the pydantic models OrderBase / OrderCreate /   *)
(* OrderUpdate / OrderRead and their Payment counterparts, the validation  *)
(* pydantic performs for them, and the create / update / read lifecycle    *)
(* built on them.                                                          *)
(***************************************************************************)
EXTENDS Integers, FiniteSets, Sequences, TLC

VARIABLES clock, nextUuid, store, last

vars == <<clock, nextUuid, store, last>>

(***************************************************************************)
(* Bounds of the model.                                                    *)
(***************************************************************************)
\* Largest instant datetime.utcnow() returns.
MaxClock == 2
\* Largest number of keys in which a payload differs from its template.
MaxEdits == 2
\* Largest number of keys in which a payload of the service differs.
MaxSvcEdits == 1
\* Largest number of operations of one run of the service.
MaxOps == 3
\* Largest number of records the store holds.
MaxRecords == 1

(***************************************************************************)
(* Raw values: what a payload holds under a key, and what a validated      *)
(* field holds.  k is the Python/JSON type, v identifies the value.        *)
(*   str     a string that is no number, date or UUID                      *)
(*   numstr  the string spelling the integer v                             *)
(*   int     the integer v                                                 *)
(*   float   the float v/2 (v counts halves, so 4 is 2.0 and 5 is 2.5)     *)
(*   date    the datetime.date number v; datestr its YYYY-MM-DD string     *)
(*   uuid    the UUID number v; uuidstr its string form                    *)
(*   datetime the instant v; datetimestr its ISO string                    *)
(*   person  a mapping that is a valid PersonBase; badperson one that is   *)
(*           not                                                           *)
(*   junk    a JSON array, valid for no field                              *)
(***************************************************************************)
Val(kind, n) == [k |-> kind, v |-> n]
Null == Val("null", 0)
Junk == Val("junk", 0)
BadPerson == Val("badperson", 0)

\* The value a caller picks for an id or a timestamp it supplies; the
\* values uuid4() and utcnow() produce are never negative.
CallerUuid == Val("uuidstr", -1)
CallerInstant == Val("datetimestr", -1)

StrKinds == {"str", "numstr", "datestr", "uuidstr", "datetimestr"}

Ok(x) == [ok |-> TRUE, value |-> x, err |-> "none"]
Err(e) == [ok |-> FALSE, value |-> Null, err |-> e]

(***************************************************************************)
(* pydantic's (lax mode) validation of one value against an annotation.    *)
(***************************************************************************)
Coerce(type, x) ==
    CASE type = "str" ->
           IF x.k \in StrKinds THEN Ok(x) ELSE Err("string_type")
      [] type = "int" ->
           IF x.k = "int" THEN Ok(x)
           ELSE IF x.k = "numstr" THEN Ok(Val("int", x.v))
           ELSE IF x.k = "float"
                THEN IF x.v % 2 = 0 THEN Ok(Val("int", x.v \div 2))
                                    ELSE Err("int_from_float")
           ELSE IF x.k \in StrKinds THEN Err("int_parsing")
           ELSE Err("int_type")
      [] type = "float" ->
           IF x.k = "float" THEN Ok(x)
           ELSE IF x.k \in {"int", "numstr"} THEN Ok(Val("float", 2 * x.v))
           ELSE IF x.k \in StrKinds THEN Err("float_parsing")
           ELSE Err("float_type")
      [] type = "date" ->
           IF x.k = "date" THEN Ok(x)
           ELSE IF x.k = "datestr" THEN Ok(Val("date", x.v))
           ELSE IF x.k \in StrKinds THEN Err("date_from_datetime_parsing")
           ELSE Err("date_type")
      [] type = "datetime" ->
           IF x.k = "datetime" THEN Ok(x)
           ELSE IF x.k = "datetimestr" THEN Ok(Val("datetime", x.v))
           ELSE IF x.k \in StrKinds THEN Err("datetime_from_date_parsing")
           ELSE Err("datetime_type")
      [] type = "uuid" ->
           IF x.k = "uuid" THEN Ok(x)
           ELSE IF x.k = "uuidstr" THEN Ok(Val("uuid", x.v))
           ELSE IF x.k \in StrKinds THEN Err("uuid_parsing")
           ELSE Err("uuid_type")
      [] type = "person" ->
           IF x.k = "person" THEN Ok(x) ELSE Err("model_type")

(***************************************************************************)
(* A field declaration: its annotation, whether the annotation is          *)
(* Optional[...], and its default: "required" (Field(...)), "none"         *)
(* (Field(None)), or a default_factory, "uuid4" or "utcnow".               *)
(***************************************************************************)
FieldInfo(type, optional, default) ==
    [type |-> type, optional |-> optional, default |-> default]

OrderBase ==
    [id             |-> FieldInfo("uuid", FALSE, "uuid4"),
     customer       |-> FieldInfo("person", FALSE, "none"),
     item           |-> FieldInfo("str", FALSE, "required"),
     quantity       |-> FieldInfo("int", FALSE, "required"),
     price_per_item |-> FieldInfo("float", FALSE, "required"),
     order_date     |-> FieldInfo("date", FALSE, "required")]

OrderCreate == OrderBase

OrderUpdate ==
    [customer       |-> FieldInfo("person", TRUE, "none"),
     item           |-> FieldInfo("str", TRUE, "none"),
     quantity       |-> FieldInfo("int", TRUE, "none"),
     price_per_item |-> FieldInfo("float", TRUE, "none"),
     order_date     |-> FieldInfo("date", TRUE, "none")]

OrderRead ==
    [f \in DOMAIN OrderBase \cup {"created_at", "updated_at"} |->
        IF f \in {"created_at", "updated_at"}
        THEN FieldInfo("datetime", FALSE, "utcnow")
        ELSE IF f = "id" THEN FieldInfo("uuid", FALSE, "uuid4")
        ELSE OrderBase[f]]

PaymentBase ==
    [id         |-> FieldInfo("uuid", FALSE, "uuid4"),
     sender     |-> FieldInfo("person", FALSE, "none"),
     receiver   |-> FieldInfo("person", FALSE, "none"),
     amount     |-> FieldInfo("float", FALSE, "required"),
     currency   |-> FieldInfo("str", FALSE, "required"),
     status     |-> FieldInfo("str", FALSE, "required"),
     method     |-> FieldInfo("str", FALSE, "required"),
     birth_date |-> FieldInfo("date", TRUE, "none")]

PaymentCreate == PaymentBase

PaymentUpdate ==
    [sender     |-> FieldInfo("person", TRUE, "none"),
     receiver   |-> FieldInfo("person", TRUE, "none"),
     amount     |-> FieldInfo("float", TRUE, "none"),
     currency   |-> FieldInfo("str", TRUE, "none"),
     status     |-> FieldInfo("str", TRUE, "none"),
     method     |-> FieldInfo("str", TRUE, "none"),
     birth_date |-> FieldInfo("date", TRUE, "none")]

PaymentRead ==
    [f \in DOMAIN PaymentBase \cup {"created_at", "updated_at"} |->
        IF f \in {"created_at", "updated_at"}
        THEN FieldInfo("datetime", FALSE, "utcnow")
        ELSE IF f = "id" THEN FieldInfo("uuid", FALSE, "uuid4")
        ELSE PaymentBase[f]]

Families == {"Order", "Payment"}

BaseSchema(fam) == IF fam = "Order" THEN OrderBase ELSE PaymentBase
CreateSchema(fam) == IF fam = "Order" THEN OrderCreate ELSE PaymentCreate
UpdateSchema(fam) == IF fam = "Order" THEN OrderUpdate ELSE PaymentUpdate
ReadSchema(fam) == IF fam = "Order" THEN OrderRead ELSE PaymentRead

\* The fields declared with Field(...): no default.
RequiredFields(fam) ==
    {f \in DOMAIN BaseSchema(fam) : BaseSchema(fam)[f].default = "required"}

\* The embedded PersonBase fields.
PersonFields(fam) ==
    {f \in DOMAIN BaseSchema(fam) : BaseSchema(fam)[f].type = "person"}

(***************************************************************************)
(* pydantic's validation of a mapping against a model class.  A key the    *)
(* class does not declare is ignored (no model_config sets "extra"); a     *)
(* supplied value is validated against the annotation, None being accepted *)
(* only by Optional[...]; for an absent key the default is taken as it is, *)
(* unvalidated, or the default_factory is called (env holds what the       *)
(* factories return), and a required field is reported missing.  All       *)
(* fields are validated and all errors collected.                          *)
(***************************************************************************)
FieldValidate(info, x) ==
    IF x = Null /\ info.optional THEN Ok(Null) ELSE Coerce(info.type, x)

\* Mutant: a field declared with Field(...) defaults to None.
FieldDefault_NoRequired(info, f, env) ==
    CASE info.default \in {"required", "none"} -> Ok(Null)
      [] OTHER -> Ok(env[f])

\* Mutant: a field that is not Optional[...] has no None default: the
\* default is validated against the annotation.
FieldDefault_NoneValidated(info, f, env) ==
    CASE info.default = "required" -> Err("missing")
      [] info.default = "none" ->
           IF info.optional THEN Ok(Null) ELSE Err("missing")
      [] OTHER -> Ok(env[f])

FieldDefault(info, f, env) ==
    CASE info.default = "required" -> Err("missing")
      [] info.default = "none" -> Ok(Null)
      [] OTHER -> Ok(env[f])

\* Mutant: every declared field counts as set.
ModelFieldsSet_All(schema, data) == DOMAIN schema

ModelFieldsSet(schema, data) == DOMAIN schema \cap DOMAIN data

\* Mutant: model_config sets extra = "allow": undeclared keys are kept.
ModelValidate_ExtraAllow(schema, data, env) ==
    LET res(f) == IF f \in DOMAIN data
                  THEN FieldValidate(schema[f], data[f])
                  ELSE FieldDefault(schema[f], f, env)
        bad == {f \in DOMAIN schema : ~res(f).ok}
    IN  IF bad = {}
        THEN [ok |-> TRUE,
              values |-> [f \in DOMAIN schema \cup DOMAIN data |->
                            IF f \in DOMAIN schema THEN res(f).value
                            ELSE data[f]],
              fields_set |-> DOMAIN data,
              errors |-> {}]
        ELSE [ok |-> FALSE,
              values |-> <<>>,
              fields_set |-> {},
              errors |-> {[loc |-> f, type |-> res(f).err] : f \in bad}]

ModelValidate(schema, data, env) ==
    LET res(f) == IF f \in DOMAIN data
                  THEN FieldValidate(schema[f], data[f])
                  ELSE FieldDefault(schema[f], f, env)
        bad == {f \in DOMAIN schema : ~res(f).ok}
    IN  IF bad = {}
        THEN [ok |-> TRUE,
              values |-> [f \in DOMAIN schema |-> res(f).value],
              fields_set |-> ModelFieldsSet(schema, data),
              errors |-> {}]
        ELSE [ok |-> FALSE,
              values |-> <<>>,
              fields_set |-> {},
              errors |-> {[loc |-> f, type |-> res(f).err] : f \in bad}]

\* Mutant: the timestamps are local time, one unit ahead of UTC.
Factories_LocalTime(u, t1, t2) ==
    [id |-> Val("uuid", u),
     created_at |-> Val("datetime", t1 + 1),
     updated_at |-> Val("datetime", t2 + 1)]

\* What the default factories return: uuid4() the identifier number u,
\* datetime.utcnow() first t1 (created_at) and then t2 (updated_at).
Factories(u, t1, t2) ==
    [id |-> Val("uuid", u),
     created_at |-> Val("datetime", t1),
     updated_at |-> Val("datetime", t2)]

\* OrderCreate(**raw) / PaymentCreate(**raw): the canonical record is the
\* result's values.
validate_create(fam, raw, u) ==
    ModelValidate(CreateSchema(fam), raw, Factories(u, 0, 0))

\* OrderUpdate(**raw) / PaymentUpdate(**raw).
validate_update(fam, raw) ==
    ModelValidate(UpdateSchema(fam), raw, Factories(0, 0, 0))

\* The fields of a validated Update payload that the payload set, with
\* their validated values (model_dump(exclude_unset=True)).
PartialRecord(upd) == [f \in upd.fields_set |-> upd.values[f]]

\* OrderRead(**record) / PaymentRead(**record): the Read representation of
\* a canonical record; the timestamps come from the default factories.
project_read(fam, record, t1, t2) ==
    ModelValidate(ReadSchema(fam), record, Factories(0, t1, t2))

(***************************************************************************)
(* The payloads a caller sends.  A Create payload is the valid JSON body   *)
(* of the family with some keys removed or replaced; an Update payload is  *)
(* the empty body with some keys added.                                    *)
(***************************************************************************)
Keys(fam) == DOMAIN BaseSchema(fam) \cup {"created_at", "updated_at"}

KeyType(fam, key) ==
    IF key \in DOMAIN BaseSchema(fam) THEN BaseSchema(fam)[key].type
    ELSE "datetime"

CreateTemplate(fam) ==
    IF fam = "Order"
    THEN [customer       |-> Val("person", 1),
          item           |-> Val("str", 1),
          quantity       |-> Val("int", 2),
          price_per_item |-> Val("float", 3),
          order_date     |-> Val("datestr", 1)]
    ELSE [sender     |-> Val("person", 1),
          receiver   |-> Val("person", 2),
          amount     |-> Val("float", 3),
          currency   |-> Val("str", 1),
          status     |-> Val("str", 2),
          method     |-> Val("str", 3),
          birth_date |-> Val("datestr", 1)]

UpdateTemplate == <<>>

\* Values a caller may put under a key of the given type besides the
\* template's: null, a value of the wrong type, and values of another type
\* that pydantic converts.
Options(type) ==
    CASE type = "str" -> {Null, Junk, Val("numstr", 2)}
      [] type = "int" -> {Null, Junk, Val("numstr", 2), Val("float", 5)}
      [] type = "float" -> {Null, Junk, Val("int", 2)}
      [] type = "date" -> {Null, Junk, Val("date", 1)}
      [] type = "person" -> {Null, BadPerson}
      [] type = "uuid" -> {CallerUuid, Junk}
      [] type = "datetime" -> {CallerInstant}

\* A valid value that no Create template holds, for an Update.
Fresh(type) ==
    CASE type = "str" -> {Val("str", 9)}
      [] type = "int" -> {Val("int", 5)}
      [] type = "float" -> {Val("float", 7)}
      [] type = "date" -> {Val("datestr", 2)}
      [] type = "person" -> {Val("person", 3)}
      [] OTHER -> {}

Remove(p, key) == [k \in DOMAIN p \ {key} |-> p[k]]

Put(p, key, x) == [k \in DOMAIN p \cup {key} |-> IF k = key THEN x ELSE p[k]]

OneEdit(fam, update, p) ==
    {Remove(p, key) : key \in DOMAIN p}
    \cup UNION {{Put(p, key, x) :
                    x \in Options(KeyType(fam, key))
                          \cup (IF update THEN Fresh(KeyType(fam, key)) ELSE {})} :
                key \in Keys(fam)}

RECURSIVE Edited(_, _, _, _)
Edited(fam, update, p, n) ==
    IF n = 0 THEN {p}
    ELSE LET prev == Edited(fam, update, p, n - 1)
         IN  prev \cup UNION {OneEdit(fam, update, q) : q \in prev}

OrderCreatePayloads == Edited("Order", FALSE, CreateTemplate("Order"), MaxEdits)
PaymentCreatePayloads == Edited("Payment", FALSE, CreateTemplate("Payment"), MaxEdits)
OrderUpdatePayloads == Edited("Order", TRUE, UpdateTemplate, MaxEdits)
PaymentUpdatePayloads == Edited("Payment", TRUE, UpdateTemplate, MaxEdits)

CreatePayloads(fam) ==
    IF fam = "Order" THEN OrderCreatePayloads ELSE PaymentCreatePayloads
UpdatePayloads(fam) ==
    IF fam = "Order" THEN OrderUpdatePayloads ELSE PaymentUpdatePayloads

OrderSvcCreatePayloads == Edited("Order", FALSE, CreateTemplate("Order"), MaxSvcEdits)
PaymentSvcCreatePayloads == Edited("Payment", FALSE, CreateTemplate("Payment"), MaxSvcEdits)
OrderSvcUpdatePayloads == Edited("Order", TRUE, UpdateTemplate, MaxSvcEdits)
PaymentSvcUpdatePayloads == Edited("Payment", TRUE, UpdateTemplate, MaxSvcEdits)

SvcCreatePayloads(fam) ==
    IF fam = "Order" THEN OrderSvcCreatePayloads ELSE PaymentSvcCreatePayloads
SvcUpdatePayloads(fam) ==
    IF fam = "Order" THEN OrderSvcUpdatePayloads ELSE PaymentSvcUpdatePayloads

(***************************************************************************)
(* The lifecycle.  store holds, per family, the Read representations the   *)
(* persistence collaborator keeps, by identifier; last records the last    *)
(* operation: its payload, what validation returned, the stored record     *)
(* before and after.                                                       *)
(***************************************************************************)
NoResult == [ok |-> FALSE, values |-> <<>>, fields_set |-> {}, errors |-> {}]
NoRecord == <<>>

Observation(n, op, fam, raw, valid, read, before, after, status) ==
    [n |-> n, op |-> op, family |-> fam, payload |-> raw, valid |-> valid,
     read |-> read, before |-> before, after |-> after, status |-> status]

Init ==
    /\ clock = 0
    /\ nextUuid = 0
    /\ store = [fam \in Families |-> <<>>]
    /\ last = Observation(0, "init", "Order", <<>>, NoResult, NoResult,
                          NoRecord, NoRecord, "ok")

\* Mutant: the merge leaves updated_at as it was.
Merge_KeepUpdatedAt(record, partial, now) ==
    [f \in DOMAIN record |->
        IF f \in DOMAIN partial THEN partial[f] ELSE record[f]]

\* Partial merge of a PartialRecord onto a stored record, at instant now.
Merge(record, partial, now) ==
    [f \in DOMAIN record |->
        IF f = "updated_at" THEN Val("datetime", now)
        ELSE IF f \in DOMAIN partial THEN partial[f]
        ELSE record[f]]

\* The persistence collaborator's commit of a new Read representation.
Commit(fam, read) == (read.id.v :> read) @@ store[fam]

StoredCount ==
    Cardinality(DOMAIN store["Order"]) + Cardinality(DOMAIN store["Payment"])

\* Create: validate_create, then project_read at commit, then the commit.
Create(fam) ==
    /\ last.n < MaxOps
    /\ StoredCount < MaxRecords
    /\ \E raw \in SvcCreatePayloads(fam) :
       \E t1 \in clock..MaxClock :
       \E t2 \in t1..MaxClock :
          LET u == nextUuid + 1
              created == validate_create(fam, raw, u)
              read == project_read(fam, created.values, t1, t2)
              obs(rd, after, status) ==
                  Observation(last.n + 1, "create", fam, raw, created, rd,
                              NoRecord, after, status)
          IN  /\ nextUuid' = IF "id" \in DOMAIN raw THEN nextUuid ELSE u
              /\ IF ~created.ok
                 THEN /\ clock' = clock
                      /\ store' = store
                      /\ last' = obs(NoResult, NoRecord, "ValidationError")
                 ELSE /\ clock' = t2
                      /\ IF ~read.ok
                         THEN /\ store' = store
                              /\ last' = obs(read, NoRecord, "ReadError")
                         ELSE IF read.values.id.v \in DOMAIN store[fam]
                         THEN /\ store' = store
                              /\ last' = obs(read, NoRecord, "IdentityConflict")
                         ELSE /\ store' = [store EXCEPT
                                             ![fam] = Commit(fam, read.values)]
                              /\ last' = obs(read, read.values, "ok")

\* Update: validate_update, then the merge onto the stored record.
Update(fam) ==
    /\ last.n < MaxOps
    /\ \E id \in DOMAIN store[fam] :
       \E raw \in SvcUpdatePayloads(fam) :
       \E t \in clock..MaxClock :
          LET upd == validate_update(fam, raw)
              before == store[fam][id]
              after == Merge(before, PartialRecord(upd), t)
          IN  /\ nextUuid' = nextUuid
              /\ IF ~upd.ok
                 THEN /\ clock' = clock
                      /\ store' = store
                      /\ last' = Observation(last.n + 1, "update", fam, raw,
                                     upd, NoResult, before, before,
                                     "ValidationError")
                 ELSE /\ clock' = t
                      /\ store' = [store EXCEPT ![fam][id] = after]
                      /\ last' = Observation(last.n + 1, "update", fam, raw,
                                     upd, NoResult, before, after, "ok")

CreateOrder == Create("Order")
CreatePayment == Create("Payment")
UpdateOrder == Update("Order")
UpdatePayment == Update("Payment")

Next == CreateOrder \/ CreatePayment \/ UpdateOrder \/ UpdatePayment

Spec == Init /\ [][Next]_vars

(***************************************************************************)
(* The validation functions on their own: validate_create, project_read    *)
(* of the record validate_create returned, and validate_update, applied    *)
(* to the payloads of up to MaxEdits edits, one payload a run.             *)
(***************************************************************************)
ValidateCreate(fam) ==
    /\ last.op = "init"
    /\ \E raw \in CreatePayloads(fam) :
          LET u == nextUuid + 1
              created == validate_create(fam, raw, u)
          IN  /\ nextUuid' = IF "id" \in DOMAIN raw THEN nextUuid ELSE u
              /\ last' = Observation(0, "validate_create", fam, raw, created,
                             NoResult, NoRecord, NoRecord,
                             IF created.ok THEN "ok" ELSE "ValidationError")
              /\ UNCHANGED <<clock, store>>

ProjectRead ==
    /\ last.op = "validate_create"
    /\ last.valid.ok
    /\ \E t1 \in clock..MaxClock :
       \E t2 \in t1..MaxClock :
          LET read == project_read(last.family, last.valid.values, t1, t2)
          IN  /\ clock' = t2
              /\ last' = Observation(0, "project_read", last.family,
                             last.payload, last.valid, read, NoRecord,
                             NoRecord, IF read.ok THEN "ok" ELSE "ReadError")
              /\ UNCHANGED <<nextUuid, store>>

ValidateUpdate(fam) ==
    /\ last.op = "init"
    /\ \E raw \in UpdatePayloads(fam) :
          LET upd == validate_update(fam, raw)
          IN  /\ last' = Observation(0, "validate_update", fam, raw, upd,
                             NoResult, NoRecord, NoRecord,
                             IF upd.ok THEN "ok" ELSE "ValidationError")
              /\ UNCHANGED <<clock, nextUuid, store>>

ValidateCreateOrder == ValidateCreate("Order")
ValidateCreatePayment == ValidateCreate("Payment")
ValidateUpdateOrder == ValidateUpdate("Order")
ValidateUpdatePayment == ValidateUpdate("Payment")

NextValidate ==
    \/ ValidateCreateOrder
    \/ ValidateCreatePayment
    \/ ProjectRead
    \/ ValidateUpdateOrder
    \/ ValidateUpdatePayment

SpecValidate == Init /\ [][NextValidate]_vars

(***************************************************************************)
(* What the last operation was.                                            *)
(***************************************************************************)
\* last.valid is validate_create's result for last.payload.
CreateValidated == last.op \in {"create", "validate_create", "project_read"}

\* last.valid is validate_update's result for last.payload.
UpdateValidated == last.op \in {"update", "validate_update"}

\* project_read was applied to the record validate_create returned.
ReadAttempted ==
    \/ last.op = "project_read"
    \/ last.op = "create" /\ last.valid.ok

\* An Update was validated and merged onto the stored record last.before.
UpdateApplied == last.op = "update" /\ last.valid.ok

ImmutableKeys == {"id", "created_at"}

(***************************************************************************)
(* C1.  The id of the record a valid Create payload yields is freshly      *)
(* generated: an id the caller supplies in the payload is ignored and      *)
(* never becomes the record's id.                                          *)
(* The code takes the caller's id: the default_factory runs only for an    *)
(* absent key.                                                             *)
(***************************************************************************)
C1_SuppliedIdIgnored ==
    (CreateValidated /\ last.valid.ok /\ "id" \in DOMAIN last.payload)
        => last.valid.values.id # Coerce("uuid", last.payload.id).value

(***************************************************************************)
(* C2.  validate_create fails with a ValidationError naming the missing    *)
(* field whenever the payload omits a required field (item, quantity,      *)
(* price_per_item, order_date; amount, currency, status, method),          *)
(* whatever the other keys hold, and then no canonical record and no Read  *)
(* representation is produced.                                             *)
(***************************************************************************)
C2_MissingRequiredFails ==
    CreateValidated =>
        \A f \in RequiredFields(last.family) \ DOMAIN last.payload :
            /\ ~last.valid.ok
            /\ last.status = "ValidationError"
            /\ [loc |-> f, type |-> "missing"] \in last.valid.errors
            /\ last.valid.values = NoRecord
            /\ last.read = NoResult
            /\ last.after = NoRecord

\* A Create payload without a required field, one of whose other keys holds
\* a value of the wrong type, was validated.
C2_Witness ==
    /\ last.op = "validate_create"
    /\ RequiredFields(last.family) \ DOMAIN last.payload # {}
    /\ \E k \in DOMAIN last.payload : last.payload[k] = Junk
    /\ ~last.valid.ok

WithoutImmutable(raw) == [k \in DOMAIN raw \ ImmutableKeys |-> raw[k]]

Settable(fam) == DOMAIN UpdateSchema(fam)

(***************************************************************************)
(* C4.  Applying a validated Update payload to a stored record sets        *)
(* exactly the fields the payload supplies (to their validated values) and *)
(* leaves every other field as it was, updated_at apart, which the merge   *)
(* refreshes; id and created_at are the same before and after every        *)
(* Update, over any sequence of updates.  A payload that does not validate *)
(* changes nothing.                                                        *)
(***************************************************************************)
C4_UpdateFrame ==
    last.op = "update" =>
        IF last.valid.ok
        THEN /\ DOMAIN last.after = DOMAIN last.before
             /\ \A f \in DOMAIN last.before \ {"updated_at"} :
                   last.after[f] =
                       IF f \in DOMAIN last.payload \cap Settable(last.family)
                       THEN FieldValidate(UpdateSchema(last.family)[f],
                                          last.payload[f]).value
                       ELSE last.before[f]
             /\ last.after.id = last.before.id
             /\ last.after.created_at = last.before.created_at
             /\ store[last.family][last.before.id.v] = last.after
        ELSE /\ last.after = last.before
             /\ store[last.family][last.before.id.v] = last.before

\* The second Update of a record set one field to a new value and left
\* another field, which the first Update had set, alone.
C4_Witness ==
    /\ UpdateApplied
    /\ last.n = 3
    /\ Cardinality(DOMAIN last.payload) = 1
    /\ \E f \in DOMAIN last.payload \cap Settable(last.family) :
          /\ last.after[f] # last.before[f]
          /\ last.after[f] # Null
    /\ \E g \in Settable(last.family) \ DOMAIN last.payload :
          /\ last.before[g] \in Fresh(KeyType(last.family, g))
          /\ last.after[g] = last.before[g]

\* The instant of the merge that produced last.after.
MergeInstant == last.after.updated_at.v

\* The fields the last Update payload supplies with the value null.
NullSupplied ==
    {f \in DOMAIN last.payload \cap Settable(last.family) :
        last.payload[f] = Null}

\* The result of validate_update for the last payload without the key f.
Omitting(f) == validate_update(last.family, Remove(last.payload, f))

(***************************************************************************)
(* C5 as stated.  The PartialRecord holds only the fields the payload      *)
(* supplies, and a payload that sets a field to null and the payload that  *)
(* omits it yield different PartialRecords and different merge results.    *)
(***************************************************************************)
C5_NullDiffersFromOmitted ==
    UpdateApplied =>
        /\ DOMAIN PartialRecord(last.valid) \subseteq DOMAIN last.payload
        /\ \A f \in NullSupplied :
              /\ PartialRecord(last.valid) # PartialRecord(Omitting(f))
              /\ last.after # Merge(last.before, PartialRecord(Omitting(f)),
                                    MergeInstant)

(***************************************************************************)
(* C5 amended.  The PartialRecord holds exactly the declared fields the    *)
(* payload supplies; a payload that sets a field to null and the payload   *)
(* that omits it yield different PartialRecords (the one holds the field,  *)
(* with null, the other does not), and different merge results exactly     *)
(* when the stored record's field is not null already.                     *)
(***************************************************************************)
C5_NullDiffersUnlessNullAlready ==
    UpdateApplied =>
        /\ DOMAIN PartialRecord(last.valid) =
               DOMAIN last.payload \cap Settable(last.family)
        /\ \A f \in NullSupplied :
              /\ PartialRecord(last.valid) # PartialRecord(Omitting(f))
              /\ PartialRecord(last.valid)[f] = Null
              /\ f \notin DOMAIN PartialRecord(Omitting(f))
              /\ last.after[f] = Null
              /\ (last.after # Merge(last.before, PartialRecord(Omitting(f)),
                                     MergeInstant))
                    <=> last.before[f] # Null

\* An Update cleared, with an explicit null, a field that held a value.
C5_Witness ==
    /\ UpdateApplied
    /\ \E f \in NullSupplied :
          /\ last.before[f] # Null
          /\ last.after[f] = Null

\* The Base fields of the family other than id.
RoundTripFields(fam) == DOMAIN BaseSchema(fam) \ {"id"}

(***************************************************************************)
(* C6.  For every valid Create payload, validate_create followed by        *)
(* project_read yields a Read representation in which every Base field     *)
(* other than id has the payload's (validated) value, and in which         *)
(* created_at equals updated_at.                                           *)
(* The code yields no Read representation for a payload without its        *)
(* Person (C9), and takes the two timestamps from two calls of utcnow().   *)
(***************************************************************************)
C6_CreateReadRoundTrip ==
    (ReadAttempted /\ last.valid.ok) =>
        /\ last.read.ok
        /\ \A f \in RoundTripFields(last.family) \cap DOMAIN last.payload :
              last.read.values[f] =
                  FieldValidate(BaseSchema(last.family)[f],
                                last.payload[f]).value
        /\ last.read.values.created_at = last.read.values.updated_at

\* Every record the store holds, of either family.
StoredRecords ==
    {store[fam][id] : <<fam, id>> \in
        UNION {{<<fam, id>> : id \in DOMAIN store[fam]} : fam \in Families}}

\* The caller's timestamp as a validated value.
CallerInstantValue == Coerce("datetime", CallerInstant).value

(***************************************************************************)
(* C7.  In every Read representation that Create and Update operations     *)
(* produce, updated_at >= created_at, and both are instants the server     *)
(* read from its clock: no value a caller supplied for created_at or       *)
(* updated_at, in a Create or an Update payload, is ever in one.           *)
(***************************************************************************)
C7_TimestampsServerAssigned ==
    \A r \in StoredRecords \cup
             (IF last.read.ok THEN {last.read.values} ELSE {}) :
        /\ r.created_at.k = "datetime"
        /\ r.updated_at.k = "datetime"
        /\ r.updated_at.v >= r.created_at.v
        /\ r.created_at.v \in 0..clock
        /\ r.updated_at.v \in 0..clock
        /\ r.created_at # CallerInstantValue
        /\ r.updated_at # CallerInstantValue

\* An Update whose payload supplied updated_at was merged onto a record at
\* an instant after the record's creation.
C7_Witness ==
    /\ UpdateApplied
    /\ "updated_at" \in DOMAIN last.payload
    /\ last.after.updated_at.v > last.after.created_at.v
    /\ last.after \in StoredRecords

(***************************************************************************)
(* C8 as stated.  After every successful Update the record's updated_at is *)
(* strictly greater than it was before the Update.                         *)
(***************************************************************************)
C8_UpdatedAtStrictlyGreater ==
    UpdateApplied => last.after.updated_at.v > last.before.updated_at.v

(***************************************************************************)
(* C8 amended.  Every successful Update sets the record's updated_at to    *)
(* the instant of the merge, which is not before the record's updated_at   *)
(* of before the Update (it is the same instant when the clock reads the   *)
(* same at both).                                                          *)
(***************************************************************************)
C8_UpdatedAtRefreshed ==
    UpdateApplied =>
        /\ last.after.updated_at = Val("datetime", clock)
        /\ last.after.updated_at.v >= last.before.updated_at.v

\* An Update was merged at a later instant than the record's updated_at.
C8_Witness ==
    /\ UpdateApplied
    /\ last.after.updated_at.v > last.before.updated_at.v
    /\ last.after.updated_at.v = clock

(***************************************************************************)
(* C9.  project_read is total: every canonical record validate_create      *)
(* produces, also from a payload without customer, sender or receiver, is  *)
(* projected to a Read representation, which holds all Base fields,        *)
(* created_at and updated_at.                                              *)
(* The code's OrderRead / PaymentRead reject the None that OrderCreate /   *)
(* PaymentCreate took as the default of a field annotated PersonBase.      *)
(***************************************************************************)
C9_ProjectReadTotal ==
    (ReadAttempted /\ last.valid.ok) =>
        /\ last.read.ok
        /\ DOMAIN last.read.values =
               DOMAIN BaseSchema(last.family) \cup {"created_at", "updated_at"}

(***************************************************************************)
(* C10.  validate_update fails with ValidationError whenever a field the   *)
(* payload supplies fails the constraint the field has in the Base schema, *)
(* in particular a Base-required field (item, quantity, price_per_item,    *)
(* order_date; amount, currency, status, method) supplied as null; fields  *)
(* not supplied are not validated, and the empty payload is accepted.      *)
(* Stated for the Base-required fields.  The code's Update models annotate *)
(* every field Optional[...]: null is accepted for each.                   *)
(***************************************************************************)
C10_UpdateEnforcesBase ==
    UpdateValidated =>
        /\ (\E f \in DOMAIN last.payload \cap RequiredFields(last.family) :
               ~FieldValidate(BaseSchema(last.family)[f],
                              last.payload[f]).ok)
              => (~last.valid.ok /\ last.status = "ValidationError")
        /\ DOMAIN last.payload = {} => last.valid.ok

\* Every key the payload supplies for a declared Create field validates,
\* and no required field is absent: nothing but an absent Person could make
\* validate_create fail.
OthersPresentAndValid ==
    /\ RequiredFields(last.family) \subseteq DOMAIN last.payload
    /\ \A f \in DOMAIN last.payload \cap DOMAIN CreateSchema(last.family) :
          FieldValidate(CreateSchema(last.family)[f], last.payload[f]).ok

\* The embedded Person fields the last payload omits.
PersonOmitted == PersonFields(last.family) \ DOMAIN last.payload

(***************************************************************************)
(* C11.  validate_create accepts a payload that omits the embedded Person  *)
(* (customer for Order; sender or receiver for Payment) when all required  *)
(* fields are present and every supplied field is valid: the result is a   *)
(* canonical record whose omitted Person field is null, not a              *)
(* ValidationError.                                                        *)
(***************************************************************************)
C11_OmittedPersonAccepted ==
    (CreateValidated /\ OthersPresentAndValid /\ PersonOmitted # {})
        => /\ last.valid.ok
           /\ last.valid.errors = {}
           /\ \A f \in PersonOmitted :
                 /\ last.valid.values[f] = Null
                 /\ f \notin last.valid.fields_set

\* A Create payload without a Person field, its other fields valid, was
\* accepted, and the record holds null for the Person.
C11_Witness ==
    /\ last.op = "validate_create"
    /\ PersonOmitted # {}
    /\ OthersPresentAndValid
    /\ last.valid.ok
    /\ \E f \in PersonOmitted : last.valid.values[f] = Null

====
